---- MODULE Spec2Model ----
(***************************************************************************)
(* Request dispatch and error normalisation of the Schlep-engine Rust SDK  *)
(* (src/src/client.rs, src/src/error.rs, src/src/types.rs).                *)
(*                                                                         *)
(* Text (a Rust String, a response body) is a sequence of atoms.  An atom  *)
(* is one character ("{", the quote Q, a blank, a line feed) or an         *)
(* unbroken run of letters that the code never looks inside ("message",    *)
(* "X", "Bearer ").  JSON texts are parsed and rendered atom by atom.      *)
(***************************************************************************)
EXTENDS Integers, Sequences, FiniteSets, TLC

\* ------------------------------------------------------------------ bounds
\* every body of at most MaxShort atoms over ShortAtoms is a response body
MaxShort == 1
\* calls issued one after the other on a handle
MaxCalls == 2
\* calls in flight at the same time on a handle
MaxTasks == 2

\* ------------------------------------------------------------------- text
Q == "\""
WS == " "
LF == "\n"
DIGIT == "1"

EmptyText == << >>

\* String::is_empty
is_empty(t) == Len(t) = 0

\* the sequences over S of length 0..n
RECURSIVE SeqsUpTo(_, _)
SeqsUpTo(S, n) ==
    IF n = 0 THEN { << >> }
    ELSE LET shorter == SeqsUpTo(S, n - 1)
         IN  shorter \cup { Append(t, a) : t \in { u \in shorter : Len(u) = n - 1 }, a \in S }

\* ------------------------------------------------------------ JSON values
\* serde_json::Value.  An object keeps its members in the order parsed;
\* a later member of the same key replaces the earlier one on lookup.
JNull == [k |-> "null", s |-> EmptyText, items |-> << >>]
JNum(t) == [k |-> "num", s |-> t, items |-> << >>]
JStr(t) == [k |-> "str", s |-> t, items |-> << >>]
JArr(vs) == [k |-> "arr", s |-> EmptyText, items |-> vs]
JObj(ms) == [k |-> "obj", s |-> EmptyText, items |-> ms]
Member(key, val) == [key |-> key, val |-> val]

ParseFail == [ok |-> FALSE, val |-> JNull, pos |-> 0]
Parsed(v, p) == [ok |-> TRUE, val |-> v, pos |-> p]

\* position of the first atom at or after i that is not white space
RECURSIVE SkipWs(_, _)
SkipWs(t, i) ==
    IF i <= Len(t) /\ t[i] \in {WS, LF} THEN SkipWs(t, i + 1) ELSE i

\* position just after the run of digits that starts at i
RECURSIVE DigitsEnd(_, _)
DigitsEnd(t, i) ==
    IF i <= Len(t) /\ t[i] = DIGIT THEN DigitsEnd(t, i + 1) ELSE i

\* position of the closing quote of the string whose content starts at i,
\* 0 when the string is not terminated or holds a raw control character
RECURSIVE QuoteEnd(_, _)
QuoteEnd(t, i) ==
    IF i > Len(t) THEN 0
    ELSE IF t[i] = Q THEN i
    ELSE IF t[i] = LF THEN 0
    ELSE QuoteEnd(t, i + 1)

\* a string literal whose opening quote is at i
ParseString(t, i) ==
    LET e == QuoteEnd(t, i + 1)
    IN  IF e = 0 THEN ParseFail ELSE Parsed(SubSeq(t, i + 1, e - 1), e + 1)

RECURSIVE ParseValue(_, _)
RECURSIVE ParseElems(_, _, _)
RECURSIVE ParseMembers(_, _, _)

\* the elements of an array after "[" or after a ","; acc holds those read
ParseElems(t, i, acc) ==
    LET r == ParseValue(t, i)
    IN  IF ~r.ok THEN ParseFail
        ELSE LET j == SkipWs(t, r.pos)
             IN  IF j > Len(t) THEN ParseFail
                 ELSE IF t[j] = "]" THEN Parsed(JArr(Append(acc, r.val)), j + 1)
                 ELSE IF t[j] = "," THEN ParseElems(t, j + 1, Append(acc, r.val))
                 ELSE ParseFail

\* the members of an object after "{" or after a ","; acc holds those read
ParseMembers(t, i, acc) ==
    LET j == SkipWs(t, i)
    IN  IF j > Len(t) \/ t[j] # Q THEN ParseFail
        ELSE LET key == ParseString(t, j)
             IN  IF ~key.ok THEN ParseFail
                 ELSE LET c == SkipWs(t, key.pos)
                      IN  IF c > Len(t) \/ t[c] # ":" THEN ParseFail
                          ELSE LET r == ParseValue(t, c + 1)
                               IN  IF ~r.ok THEN ParseFail
                                   ELSE LET n == SkipWs(t, r.pos)
                                            ms == Append(acc, Member(key.val, r.val))
                                        IN  IF n > Len(t) THEN ParseFail
                                            ELSE IF t[n] = "}" THEN Parsed(JObj(ms), n + 1)
                                            ELSE IF t[n] = "," THEN ParseMembers(t, n + 1, ms)
                                            ELSE ParseFail

\* one JSON value starting at or after i
ParseValue(t, i) ==
    LET j == SkipWs(t, i)
    IN  IF j > Len(t) THEN ParseFail
        ELSE IF t[j] = "null" THEN Parsed(JNull, j + 1)
        ELSE IF t[j] = DIGIT THEN Parsed(JNum(SubSeq(t, j, DigitsEnd(t, j) - 1)), DigitsEnd(t, j))
        ELSE IF t[j] = Q THEN
            LET r == ParseString(t, j)
            IN  IF r.ok THEN Parsed(JStr(r.val), r.pos) ELSE ParseFail
        ELSE IF t[j] = "[" THEN
            LET n == SkipWs(t, j + 1)
            IN  IF n <= Len(t) /\ t[n] = "]" THEN Parsed(JArr(<< >>), n + 1)
                ELSE ParseElems(t, j + 1, << >>)
        ELSE IF t[j] = "{" THEN
            LET n == SkipWs(t, j + 1)
            IN  IF n <= Len(t) /\ t[n] = "}" THEN Parsed(JObj(<< >>), n + 1)
                ELSE ParseMembers(t, j + 1, << >>)
        ELSE ParseFail

\* serde_json::from_str::<Value>: one value, then nothing but white space
from_str_value(t) ==
    LET r == ParseValue(t, 1)
    IN  IF r.ok /\ SkipWs(t, r.pos) > Len(t) THEN r ELSE ParseFail

\* serde_json::to_string of a Value (compact form)
RECURSIVE to_string(_)
RECURSIVE JoinElems(_, _)
RECURSIVE JoinMembers(_, _)
JoinElems(vs, i) ==
    IF i > Len(vs) THEN << >>
    ELSE (IF i > 1 THEN <<",">> ELSE << >>) \o to_string(vs[i]) \o JoinElems(vs, i + 1)
JoinMembers(ms, i) ==
    IF i > Len(ms) THEN << >>
    ELSE (IF i > 1 THEN <<",">> ELSE << >>)
         \o <<Q>> \o ms[i].key \o <<Q, ":">> \o to_string(ms[i].val) \o JoinMembers(ms, i + 1)
to_string(v) ==
    CASE v.k = "null" -> <<"null">>
      [] v.k = "num" -> v.s
      [] v.k = "str" -> <<Q>> \o v.s \o <<Q>>
      [] v.k = "arr" -> <<"[">> \o JoinElems(v.items, 1) \o <<"]">>
      [] v.k = "obj" -> <<"{">> \o JoinMembers(v.items, 1) \o <<"}">>

\* Value's Index<&str>: the member of that key (the last one parsed wins,
\* as in Map::insert), Value::Null when v is no object or has no such member
RECURSIVE LookupFrom(_, _, _)
LookupFrom(ms, key, i) ==
    IF i = 0 THEN JNull
    ELSE IF ms[i].key = key THEN ms[i].val
    ELSE LookupFrom(ms, key, i - 1)
Index(v, key) == IF v.k = "obj" THEN LookupFrom(v.items, key, Len(v.items)) ELSE JNull

\* Value::as_str
as_str(v) == IF v.k = "str" THEN [some |-> TRUE, s |-> v.s] ELSE [some |-> FALSE, s |-> EmptyText]

\* Option::unwrap_or
unwrap_or(o, d) == IF o.some THEN o.s ELSE d

\* ------------------------------------------------------- response types
F(name, ty) == [name |-> <<name>>, ty |-> ty]

\* the fields of the response structs, in declaration order
Fields(T) ==
    CASE T = "UploadResponse" ->
            << F("job_id", "String"), F("status", "String"), F("message", "OptString") >>
      [] T = "TrainResponse" ->
            << F("job_id", "String"), F("model_id", "OptString"), F("status", "String"),
               F("message", "OptString") >>
      [] T = "DeployResponse" ->
            << F("deployment_id", "String"), F("endpoint_url", "String"),
               F("status", "String"), F("message", "OptString") >>
      [] T = "StatusResponse" ->
            << F("job_id", "String"), F("status", "String"), F("progress", "OptF32"),
               F("result", "OptValue"), F("error", "OptString"),
               F("created_at", "OptString"), F("updated_at", "OptString") >>
      [] T = "ProcessingJobResponse" ->
            << F("job_id", "String"), F("status", "String"), F("result", "OptValue"),
               F("created_at", "OptString"), F("updated_at", "OptString") >>
      [] T = "PipelineResponse" ->
            << F("pipeline_id", "String"), F("name", "String"), F("status", "String"),
               F("config", "OptValue"), F("created_at", "OptString") >>
      [] T = "FileMetadata" ->
            << F("file_id", "String"), F("filename", "String"), F("size", "U64"),
               F("content_type", "OptString"), F("uploaded_at", "OptString") >>
      [] T = "UserSummary" ->
            << F("user_id", "String"), F("email", "String"), F("status", "String"),
               F("registered_at", "OptString") >>

\* the element type of Vec<T>
VecElem(V) ==
    CASE V = "Vec<ProcessingJobResponse>" -> "ProcessingJobResponse"
      [] V = "Vec<PipelineResponse>" -> "PipelineResponse"
      [] V = "Vec<FileMetadata>" -> "FileMetadata"
      [] V = "Vec<UserSummary>" -> "UserSummary"
VecTypes ==
    {"Vec<ProcessingJobResponse>", "Vec<PipelineResponse>", "Vec<FileMetadata>", "Vec<UserSummary>"}

StructTypes == {"UploadResponse", "TrainResponse", "DeployResponse", "StatusResponse"}

\* a field of a decoded struct: Some(v), or None for an Option field
Some(v) == [some |-> TRUE, v |-> v]
None == [some |-> FALSE, v |-> JNull]

\* a decoded response: a struct (fields), a serde_json::Value (value) or
\* the bytes of a download (bytes)
TStruct(T, fs) == [ty |-> T, fields |-> fs, value |-> JNull, bytes |-> EmptyText]
TValue(v) == [ty |-> "Value", fields |-> << >>, value |-> v, bytes |-> EmptyText]
TBytes(b) == [ty |-> "Bytes", fields |-> << >>, value |-> JNull, bytes |-> b]
\* a decoded Vec<T>: its elements, in order, in fields
TVec(V, elems) == [ty |-> V, fields |-> elems, value |-> JNull, bytes |-> EmptyText]
\* the unit value () of a call that returns Result<()>
Unit == [ty |-> "()", fields |-> << >>, value |-> JNull, bytes |-> EmptyText]
NoValue == [ty |-> "none", fields |-> << >>, value |-> JNull, bytes |-> EmptyText]

DecodeFail == [ok |-> FALSE, val |-> NoValue]
Decoded(tv) == [ok |-> TRUE, val |-> tv]

\* DecodeField with every field required: null is not accepted for an Option
DecodeField_required(ty, v) ==
    CASE ty \in {"String", "OptString"} ->
            IF v.k = "str" THEN [ok |-> TRUE, f |-> Some(v)] ELSE [ok |-> FALSE, f |-> None]
      [] ty \in {"U64", "OptF32"} ->
            IF v.k = "num" THEN [ok |-> TRUE, f |-> Some(v)] ELSE [ok |-> FALSE, f |-> None]
      [] ty = "OptValue" -> [ok |-> TRUE, f |-> Some(v)]

\* Deserialize of one field of type ty from the JSON value v
DecodeField(ty, v) ==
    CASE ty = "String" -> IF v.k = "str" THEN [ok |-> TRUE, f |-> Some(v)] ELSE [ok |-> FALSE, f |-> None]
      [] ty = "U64" -> IF v.k = "num" THEN [ok |-> TRUE, f |-> Some(v)] ELSE [ok |-> FALSE, f |-> None]
      [] ty = "OptString" ->
            IF v.k = "null" THEN [ok |-> TRUE, f |-> None]
            ELSE IF v.k = "str" THEN [ok |-> TRUE, f |-> Some(v)]
            ELSE [ok |-> FALSE, f |-> None]
      [] ty = "OptF32" ->
            IF v.k = "null" THEN [ok |-> TRUE, f |-> None]
            ELSE IF v.k = "num" THEN [ok |-> TRUE, f |-> Some(v)]
            ELSE [ok |-> FALSE, f |-> None]
      [] ty = "OptValue" ->
            IF v.k = "null" THEN [ok |-> TRUE, f |-> None] ELSE [ok |-> TRUE, f |-> Some(v)]

\* the positions in ms of the members whose key is key
Occurrences(ms, key) == { i \in 1..Len(ms) : ms[i].key = key }

\* the derived visit_map: a member of an unknown key is skipped, a second
\* member of a known key is an error, a String field must be present, an
\* Option field that is absent is None
DecodeMap(T, ms) ==
    LET fs == Fields(T)
        occ(i) == Occurrences(ms, fs[i].name)
        got(i) == DecodeField(fs[i].ty, ms[CHOOSE j \in occ(i) : TRUE].val)
        fieldOk(i) ==
            IF occ(i) = {} THEN fs[i].ty \notin {"String", "U64"}
            ELSE Cardinality(occ(i)) = 1 /\ got(i).ok
    IN  IF \A i \in 1..Len(fs) : fieldOk(i)
        THEN Decoded(TStruct(T, [i \in 1..Len(fs) |-> IF occ(i) = {} THEN None ELSE got(i).f]))
        ELSE DecodeFail

\* the derived visit_seq: one element per field, in declaration order
DecodeSeq(T, vs) ==
    LET fs == Fields(T)
    IN  IF Len(vs) = Len(fs) /\ \A i \in 1..Len(fs) : DecodeField(fs[i].ty, vs[i]).ok
        THEN Decoded(TStruct(T, [i \in 1..Len(fs) |-> DecodeField(fs[i].ty, vs[i]).f]))
        ELSE DecodeFail

\* Map semantics of a parsed Value: a later member of a key replaces the
\* value of the earlier one
RECURSIVE Canon(_)
RECURSIVE InsertAll(_, _, _)
InsertAll(ms, i, acc) ==
    IF i > Len(ms) THEN acc
    ELSE LET m == Member(ms[i].key, Canon(ms[i].val))
             at == Occurrences(acc, m.key)
         IN  InsertAll(ms, i + 1,
                 IF at = {} THEN Append(acc, m)
                 ELSE [acc EXCEPT ![CHOOSE j \in at : TRUE] = m])
Canon(v) ==
    CASE v.k = "obj" -> JObj(InsertAll(v.items, 1, << >>))
      [] v.k = "arr" -> JArr([i \in 1..Len(v.items) |-> Canon(v.items[i])])
      [] OTHER -> v

\* Deserialize of a struct T from the parsed value v
DecodeStruct(T, v) ==
    IF v.k = "obj" THEN DecodeMap(T, v.items)
    ELSE IF v.k = "arr" THEN DecodeSeq(T, v.items)
    ELSE DecodeFail

\* Deserialize of Vec<T>: an array whose elements all decode as T
DecodeVec(V, v) ==
    IF v.k = "arr" /\ \A i \in 1..Len(v.items) : DecodeStruct(VecElem(V), v.items[i]).ok
    THEN Decoded(TVec(V, [i \in 1..Len(v.items) |-> DecodeStruct(VecElem(V), v.items[i]).val]))
    ELSE DecodeFail

\* serde_json::from_str::<T>
from_str(T, t) ==
    LET r == from_str_value(t)
    IN  IF ~r.ok THEN DecodeFail
        ELSE IF T = "Value" THEN Decoded(TValue(Canon(r.val)))
        ELSE IF T \in VecTypes THEN DecodeVec(T, r.val)
        ELSE DecodeStruct(T, r.val)

\* ---------------------------------------------------------------- errors
\* Result<T>: Ok(val) or Err(Error) with Error's variant in kind
Ok(tv) == [kind |-> "Ok", code |-> 0, message |-> EmptyText, val |-> tv]
Err(kind, code, message) == [kind |-> kind, code |-> code, message |-> message, val |-> NoValue]
NoResult == [kind |-> "none", code |-> 0, message |-> EmptyText, val |-> NoValue]

\* Error::api_error
api_error(code, message) == Err("Api", code, message)
\* Error::config_error
config_error(message) == Err("Config", 0, message)
\* Error::invalid_response
invalid_response(message) == Err("InvalidResponse", 0, message)
\* From<reqwest::Error> for Error
HttpError == Err("Http", 0, <<"reqwest::Error">>)

UnknownApiError == <<"Unknown API error">>

\* ----------------------------------------------------------------- inputs
\* API keys: empty, well formed, and one that holds a line feed
ApiKeys == { EmptyText, <<"test-api-key">>, <<"key", LF>> }
\* what env::var("SCHLEP_API_KEY") finds
EnvValues == { [set |-> FALSE, val |-> EmptyText] } \cup { [set |-> TRUE, val |-> key] : key \in ApiKeys }

DEFAULT_BASE_URL == <<"https://", "api.schlep-engine.com", "/v1">>
\* base URLs: the default, a mock server, one without a scheme, one whose
\* host holds a blank
BaseUrls ==
    { DEFAULT_BASE_URL, <<"http://", "127.0.0.1:1234">>, <<"127.0.0.1:1234">>, <<"http://", "bad host">> }

SchemeAtoms == {"https://", "http://", "wss://", "ws://"}
HostAtoms == {"api.schlep-engine.com", "127.0.0.1:1234"}
\* Url::parse / IntoUrl: a scheme, then a host
UrlParses(u) == Len(u) >= 2 /\ u[1] \in SchemeAtoms /\ u[2] \in HostAtoms

Paths == { <<"/jobs">> }
\* the data of upload
Texts == { <<"X">>, <<"test", WS, "data">> }
\* model and job identifiers
Ids == { <<"job_123">> }
\* the config of train
Configs == { JObj(<< >>), JObj(<<Member(<<"model_type">>, JStr(<<"X">>))>>) }
\* the body of post and put
Payloads == { JObj(<<Member(<<"name">>, JStr(<<"X">>))>>) }
\* StreamConfig { event_types, filters }
StreamConfigs ==
    { JObj(<<Member(<<"event_types">>, JArr(<<JStr(<<"training">>)>>)),
             Member(<<"filters">>, JObj(<< >>))>>) }

Statuses == {199, 200, 299, 300, 404}

\* response bodies: every short text, JSON objects of one or two members,
\* and texts made from values of the response structs
ShortAtoms == {"{", "}", "[", "]", Q, "X", DIGIT, "null", WS}
ShortBodies == SeqsUpTo(ShortAtoms, MaxShort)

SampleMembers ==
    { Member(key, val) :
        key \in { <<"message">>, <<"error">> },
        val \in { JStr(<<"X">>), JStr(<<"Invalid", WS, "key">>), JNum(<<DIGIT>>), JNull } }
\* the members used in objects of two members
PairMembers == { m \in SampleMembers : m.val \in { JStr(<<"X">>), JNum(<<DIGIT>>) } }
SampleObjects ==
    { JObj(<<m>>) : m \in SampleMembers } \cup { JObj(<<m, n>>) : m, n \in PairMembers }
ObjectBodies == { to_string(v) : v \in SampleObjects }

\* a value of each field type
SampleOf(ty) ==
    CASE ty = "String" -> Some(JStr(<<"X">>))
      [] ty = "OptString" -> Some(JStr(<<"ok">>))
      [] ty = "OptF32" -> Some(JNum(<<DIGIT, DIGIT>>))
      [] ty = "OptValue" -> Some(JObj(<< >>))
OptionalFields(T) == { i \in 1..Len(Fields(T)) : Fields(T)[i].ty # "String" }
\* values of struct T: no Option field is None, one is, or all are
SampleStructs(T) ==
    { TStruct(T, [i \in 1..Len(Fields(T)) |-> IF i \in absent THEN None ELSE SampleOf(Fields(T)[i].ty)]) :
        absent \in { a \in SUBSET OptionalFields(T) : Cardinality(a) <= 1 \/ a = OptionalFields(T) } }

\* Serialize of a struct: one member per field, None as null
RECURSIVE StructMembers(_, _, _)
StructMembers(tv, i, skipNone) ==
    IF i > Len(tv.fields) THEN << >>
    ELSE (IF skipNone /\ ~tv.fields[i].some THEN << >>
          ELSE <<Member(Fields(tv.ty)[i].name, tv.fields[i].v)>>)
         \o StructMembers(tv, i + 1, skipNone)
\* the struct as an object with every field
AsObject(tv) == JObj(StructMembers(tv, 1, FALSE))
\* the struct as an object without the fields that are None
AsSparseObject(tv) == JObj(StructMembers(tv, 1, TRUE))
\* the struct as an array of its fields
AsArray(tv) == JArr([i \in 1..Len(tv.fields) |-> tv.fields[i].v])
\* the object without its first member (a required field is missing)
WithoutFirst(v) == JObj(Tail(v.items))

AllSampleStructs == UNION { SampleStructs(T) : T \in StructTypes }
TypedBodies ==
    UNION { { to_string(AsObject(tv)), to_string(AsSparseObject(tv)), to_string(AsArray(tv)),
              to_string(WithoutFirst(AsObject(tv))) } : tv \in AllSampleStructs }

\* JSON texts that are no object with members
SampleValues ==
    { JObj(<< >>), JArr(<< >>), JStr(EmptyText), JStr(<<"message">>),
      JArr(<<JNum(<<DIGIT>>), JObj(<<Member(<<"message">>, JStr(<<"X">>))>>)>>) }
ValueBodies == { to_string(v) : v \in SampleValues } \cup { <<WS, "{", LF, "}", WS>> }

\* an object of one member cut off before its closing brace
TruncatedBodies ==
    { SubSeq(to_string(JObj(<<m>>)), 1, Len(to_string(JObj(<<m>>))) - 1) : m \in SampleMembers }

\* a list of one job
ListBodies ==
    { to_string(JArr(<<JObj(<<Member(<<"job_id">>, JStr(<<"X">>)),
                             Member(<<"status">>, JStr(<<"X">>))>>)>>)) }

ResponseBodies ==
    ShortBodies \cup ObjectBodies \cup ValueBodies \cup TypedBodies \cup TruncatedBodies
    \cup ListBodies

\* ------------------------------------------------------------ the client
NoHandle == [exists |-> FALSE, api_key |-> EmptyText, base_url |-> EmptyText]
Handle(key, url) == [exists |-> TRUE, api_key |-> key, base_url |-> url]

\* new without the check for an empty key
new_unchecked(api_key) == [res |-> Ok(NoValue), handle |-> Handle(api_key, DEFAULT_BASE_URL)]

\* SchlepClient::new
new(api_key) ==
    IF is_empty(api_key)
    THEN [res |-> config_error(<<"API key cannot be empty">>), handle |-> NoHandle]
    ELSE [res |-> Ok(NoValue), handle |-> Handle(api_key, DEFAULT_BASE_URL)]

\* from_env falling back to a built-in key when the variable is not set
from_env_default_key(e) == IF ~e.set THEN new(<<"test-api-key">>) ELSE new(e.val)

\* SchlepClient::from_env, e being what env::var finds
from_env(e) ==
    IF ~e.set
    THEN [res |-> config_error(<<"SCHLEP_API_KEY environment variable not set">>), handle |-> NoHandle]
    ELSE new(e.val)

\* SchlepClient::with_base_url
with_base_url(api_key, base_url) ==
    LET c == new(api_key)
    IN  IF c.res.kind # "Ok" THEN c
        ELSE [c EXCEPT !.handle.base_url = base_url]

\* HeaderValue::from_str taking any text
ValidHeaderValue_any(t) == TRUE

\* HeaderValue::from_str: no control character
ValidHeaderValue(t) == \A i \in 1..Len(t) : t[i] # LF

Header(name, value) == [name |-> name, value |-> value]
HeadersFail == [ok |-> FALSE, headers |-> << >>]

\* the Authorization header both header builders insert
AuthHeader(h) == Header("authorization", <<"Bearer ">> \o h.api_key)

\* SchlepClient::default_headers
default_headers(h) ==
    IF ~ValidHeaderValue(AuthHeader(h).value) THEN HeadersFail
    ELSE [ok |-> TRUE,
          headers |-> << AuthHeader(h), Header("content-type", <<"application/json">>) >>]

\* post_multipart sending the form without any header
multipart_headers_none(h) == [ok |-> TRUE, headers |-> << >>]

\* post_multipart reusing default_headers, Content-Type included
multipart_headers_json(h) == default_headers(h)

\* the headers post_multipart builds: no Content-Type
multipart_headers(h) ==
    IF ~ValidHeaderValue(AuthHeader(h).value) THEN HeadersFail
    ELSE [ok |-> TRUE, headers |-> << AuthHeader(h) >>]

\* is_success with the upper end of the range included
is_success_inclusive(status) == status >= 200 /\ status <= 300

\* StatusCode::is_success
is_success(status) == status >= 200 /\ status < 300

\* what reading the body gave: the text, or a transport failure
BodyRead(t) == [ok |-> TRUE, text |-> t]
BodyLost == [ok |-> FALSE, text |-> EmptyText]

\* error_message falling back to the raw body when JSON has no string "message"
error_message_fallback_raw(response_text) ==
    LET error_json == from_str_value(response_text)
    IN  IF error_json.ok
        THEN unwrap_or(as_str(Index(error_json.val, <<"message">>)), response_text)
        ELSE response_text

\* error_message using the default text when the body is not JSON
error_message_default_unparsed(response_text) ==
    LET error_json == from_str_value(response_text)
    IN  IF error_json.ok
        THEN unwrap_or(as_str(Index(error_json.val, <<"message">>)), UnknownApiError)
        ELSE UnknownApiError

\* error_message that never looks for the member "message"
error_message_raw(response_text) == response_text

\* the message of an error response (the non-2xx branch of handle_response)
error_message(response_text) ==
    LET error_json == from_str_value(response_text)
    IN  IF error_json.ok
        THEN unwrap_or(as_str(Index(error_json.val, <<"message">>)), UnknownApiError)
        ELSE response_text

\* handle_response reporting a body that does not decode as an API error
handle_response_parse_as_api(T, status, read) ==
    IF ~read.ok THEN HttpError
    ELSE IF is_success(status) /\ from_str(T, read.text).ok THEN Ok(from_str(T, read.text).val)
    ELSE api_error(status, error_message(read.text))

\* handle_response decoding the body before it looks at the status
handle_response_decode_first(T, status, read) ==
    IF ~read.ok THEN HttpError
    ELSE LET d == from_str(T, read.text)
         IN  IF ~d.ok
             THEN invalid_response(<<"Failed to parse response: ", "serde_json::Error">>)
             ELSE IF is_success(status) THEN Ok(d.val)
             ELSE api_error(status, error_message(read.text))

\* handle_response looking at the status before it reads the body
handle_response_status_first(T, status, read) ==
    IF ~is_success(status)
    THEN api_error(status, IF read.ok THEN error_message(read.text) ELSE UnknownApiError)
    ELSE IF ~read.ok THEN HttpError
    ELSE LET d == from_str(T, read.text)
         IN  IF d.ok THEN Ok(d.val)
             ELSE invalid_response(<<"Failed to parse response: ", "serde_json::Error">>)

\* SchlepClient::handle_response::<T>
handle_response(T, status, read) ==
    IF ~read.ok THEN HttpError
    ELSE IF is_success(status)
    THEN LET d == from_str(T, read.text)
         IN  IF d.ok THEN Ok(d.val)
             ELSE invalid_response(<<"Failed to parse response: ", "serde_json::Error">>)
    ELSE api_error(status, error_message(read.text))

\* download decoding the body of a 2xx response as JSON, as the JSON
\* operations do
download_response_json(status, read) == handle_response("Value", status, read)

\* download reporting the raw body of every non-2xx response
download_response_raw(status, read) ==
    IF is_success(status)
    THEN IF read.ok THEN Ok(TBytes(read.text)) ELSE HttpError
    ELSE IF ~read.ok THEN HttpError
    ELSE api_error(status, read.text)

\* SchlepClient::download, from the status on: the bytes of a 2xx response
\* as they are, otherwise its own copy of the error branch
download_response(status, read) ==
    IF is_success(status)
    THEN IF read.ok THEN Ok(TBytes(read.text)) ELSE HttpError
    ELSE IF ~read.ok THEN HttpError
    ELSE LET error_text == read.text
             error_json == from_str_value(error_text)
         IN  IF error_json.ok
             THEN api_error(status,
                      unwrap_or(as_str(Index(error_json.val, <<"message">>)), UnknownApiError))
             ELSE api_error(status, error_text)

\* a delete-style call that expects the body to be null
discard_null(r) ==
    IF r.kind # "Ok" THEN r
    ELSE IF r.val.value = JNull THEN Ok(Unit)
    ELSE invalid_response(<<"Failed to parse response: ", "serde_json::Error">>)

\* let _: serde_json::Value = ...await?; Ok(()) of the delete-style calls
discard(r) == IF r.kind = "Ok" THEN Ok(Unit) ELSE r

\* ---------------------------------------------------------- list queries
\* Option<u32> / Option<String> as the text of the value
SomeText(t) == [some |-> TRUE, s |-> t]
NoText == [some |-> FALSE, s |-> EmptyText]

\* types::ListParams
ListParams(page, page_size, status) == [page |-> page, page_size |-> page_size, status |-> status]
\* Option<ListParams>
SomeParams(p) == [some |-> TRUE, p |-> p]
NoParams == [some |-> FALSE, p |-> ListParams(NoText, NoText, NoText)]

PageValues == { <<DIGIT>> }
PageSizeValues == { <<"2", "0">> }
\* a status that holds the separators of a query string
StatusValues == { <<"a", "&", "b", "=", "c">> }
OptOf(S) == { NoText } \cup { SomeText(t) : t \in S }
ListParamsInputs ==
    { NoParams } \cup
    { SomeParams(ListParams(pg, sz, st)) :
        pg \in OptOf(PageValues), sz \in OptOf(PageSizeValues), st \in OptOf(StatusValues) }

\* the members Serialize gives for one field: none for a None that
\* skip_serializing_if leaves out
FieldMember(key, f, num) ==
    IF ~f.some THEN << >>
    ELSE << Member(<<key>>, IF num THEN JNum(f.s) ELSE JStr(f.s)) >>

\* serde_json::to_value of a ListParams
to_value(p) ==
    JObj(FieldMember("page", p.page, TRUE) \o FieldMember("page_size", p.page_size, TRUE)
         \o FieldMember("status", p.status, FALSE))

\* format!("{}={}", k, ...) with every value rendered by to_string
query_pair_to_string(m) == m.key \o <<"=">> \o to_string(m.val)

\* format!("{}={}", k, v.as_str().unwrap_or(&v.to_string()))
query_pair(m) == m.key \o <<"=">> \o unwrap_or(as_str(m.val), to_string(m.val))

\* [String]::join
RECURSIVE join(_, _)
join(parts, sep) ==
    IF Len(parts) = 0 THEN << >>
    ELSE IF Len(parts) = 1 THEN parts[1]
    ELSE parts[1] \o <<sep>> \o join(Tail(parts), sep)

\* the filter_map over the members of the serialized parameters
query_string(p) ==
    LET ms == to_value(p).items
        kept == SelectSeq(ms, LAMBDA m : m.val.k # "null")
    IN  [i \in 1..Len(kept) |-> query_pair(kept[i])]

\* the path of a list call: if let Some(p) = params { format!("<base>?{}", ...) }
list_path(base, params) ==
    IF params.some
    THEN <<base, "?">> \o join(query_string(params.p), "&")
    ELSE <<base>>

\* ------------------------------------------------------------------ state
VARIABLES
    given,    \* the API key the constructor was given (for from_env, what env::var found)
    handle,   \* the SchlepClient the constructor returned, NoHandle before and on failure
    ctor,     \* what the constructor returned, NoResult before it is called
    call,     \* the call in progress: operation, expected type, position
    wire,     \* the requests the current call has put on the network
    nsent,    \* the requests put on the network since the start
    resp,     \* the response to the current call, as far as it has arrived
    result,   \* what the current call returned, NoResult while it runs
    ncalls,   \* the calls started on the handle
    ws,       \* the WebSocket connection of stream: "none", "open" or "closed"
    wsSent,   \* the messages sent on the WebSocket connection
    arg,      \* the Option<ListParams> the current call was given, NoParams otherwise
    tasks     \* the calls made concurrently on the handle, each with its own future

vars == <<given, handle, ctor, call, wire, nsent, resp, result, ncalls, ws, wsSent, arg, tasks>>

Idle == [op |-> "none", ty |-> "none", pc |-> "idle"]
NoResp == [arrived |-> FALSE, failed |-> FALSE, status |-> 0, read |-> BodyLost, complete |-> FALSE]
NotGiven == [set |-> FALSE, val |-> <<"not given">>]
Given(key) == [set |-> TRUE, val |-> key]

JsonOps == {"get", "post", "put", "delete", "post_multipart", "upload", "train", "deploy", "status"}
DownloadOps == {"download", "download_file"}
HttpOps == JsonOps \cup DownloadOps
\* the list calls of the sub-API facades and their paths
ListOps == {"list_jobs", "list_pipelines", "list_files", "list_users"}
ListBase(op) ==
    CASE op = "list_jobs" -> "/data/jobs"
      [] op = "list_pipelines" -> "/ml/pipelines"
      [] op = "list_files" -> "/storage/files"
      [] op = "list_users" -> "/admin/users"
\* the delete-style calls of the facades, which return Result<()>
UnitOps == {"delete_file", "revoke_api_key"}
\* the types the generic operations are used at
GenericTypes == {"Value", "UploadResponse"}

Request(verb, url, headers, body, kind) ==
    [verb |-> verb, url |-> url, headers |-> headers, body |-> body, kind |-> kind]

\* the future of one concurrent call: its own request, response and result
NoTask ==
    [op |-> "none", ty |-> "none", pc |-> "idle", req |-> << >>, failed |-> FALSE,
     status |-> 0, read |-> BodyLost, result |-> NoResult]
NoTasks == [i \in 1..MaxTasks |-> NoTask]

Init ==
    /\ given = NotGiven
    /\ handle = NoHandle
    /\ ctor = NoResult
    /\ call = Idle
    /\ wire = << >>
    /\ nsent = 0
    /\ resp = NoResp
    /\ result = NoResult
    /\ ncalls = 0
    /\ ws = "none"
    /\ wsSent = << >>
    /\ arg = NoParams
    /\ tasks = NoTasks

\* ----------------------------------------------------------- construction
Construct(g, c) ==
    /\ ctor = NoResult
    /\ given' = g
    /\ ctor' = c.res
    /\ handle' = c.handle
    /\ UNCHANGED <<call, wire, nsent, resp, result, ncalls, ws, wsSent, arg, tasks>>

CallNew == \E key \in ApiKeys : Construct(Given(key), new(key))
CallFromEnv == \E e \in EnvValues : Construct(e, from_env(e))
CallWithBaseUrl == \E key \in ApiKeys, url \in BaseUrls : Construct(Given(key), with_base_url(key, url))

\* ------------------------------------------------------------- dispatch
CanCall == handle.exists /\ call.pc \in {"idle", "done"} /\ ncalls < MaxCalls

\* the call returns res
Return(op, ty, res) ==
    /\ call' = [op |-> op, ty |-> ty, pc |-> "done"]
    /\ result' = res

\* builder.headers(hdrs?).body.send(): a header that cannot be built returns
\* Error::Config, a URL that does not parse fails in send() before anything
\* is sent, otherwise one request goes out and the call awaits the response
\* a handle that refuses the next call once a call has failed in transport
Dispatch_poisoned(params, op, ty, verb, url, hdrs, body, kind) ==
    /\ CanCall
    /\ ncalls' = ncalls + 1
    /\ resp' = NoResp
    /\ arg' = params
    /\ UNCHANGED <<given, handle, ctor, ws, wsSent, tasks>>
    /\ IF ~hdrs.ok
       THEN /\ Return(op, ty, config_error(<<"Invalid API key format: ", "InvalidHeaderValue">>))
            /\ wire' = << >>
            /\ nsent' = nsent
       ELSE IF ~UrlParses(url) \/ result.kind = "Http"
       THEN /\ Return(op, ty, HttpError)
            /\ wire' = << >>
            /\ nsent' = nsent
       ELSE /\ call' = [op |-> op, ty |-> ty, pc |-> "sent"]
            /\ result' = NoResult
            /\ wire' = << Request(verb, url, hdrs.headers, body, kind) >>
            /\ nsent' = nsent + 1

Dispatch(params, op, ty, verb, url, hdrs, body, kind) ==
    /\ CanCall
    /\ ncalls' = ncalls + 1
    /\ resp' = NoResp
    /\ arg' = params
    /\ UNCHANGED <<given, handle, ctor, ws, wsSent, tasks>>
    /\ IF ~hdrs.ok
       THEN /\ Return(op, ty, config_error(<<"Invalid API key format: ", "InvalidHeaderValue">>))
            /\ wire' = << >>
            /\ nsent' = nsent
       ELSE IF ~UrlParses(url)
       THEN /\ Return(op, ty, HttpError)
            /\ wire' = << >>
            /\ nsent' = nsent
       ELSE /\ call' = [op |-> op, ty |-> ty, pc |-> "sent"]
            /\ result' = NoResult
            /\ wire' = << Request(verb, url, hdrs.headers, body, kind) >>
            /\ nsent' = nsent + 1

\* the same for a call that takes no ListParams
Send(op, ty, verb, url, hdrs, body, kind) ==
    Dispatch(NoParams, op, ty, verb, url, hdrs, body, kind)

\* upload sending the data itself as the body
upload_raw ==
    \E data \in Texts :
        Send("upload", "UploadResponse", "POST", handle.base_url \o <<"/upload">>,
             default_headers(handle), data, "json")

\* SchlepClient::upload
upload ==
    \E data \in Texts :
        Send("upload", "UploadResponse", "POST", handle.base_url \o <<"/upload">>,
             default_headers(handle), to_string(JObj(<<Member(<<"data">>, JStr(data))>>)), "json")

\* SchlepClient::train
train ==
    \E config \in Configs :
        Send("train", "TrainResponse", "POST", handle.base_url \o <<"/train">>,
             default_headers(handle), to_string(config), "json")

\* SchlepClient::deploy
deploy ==
    \E model_id \in Ids :
        Send("deploy", "DeployResponse", "POST", handle.base_url \o <<"/deploy">>,
             default_headers(handle), to_string(JObj(<<Member(<<"model_id">>, JStr(model_id))>>)), "json")

\* SchlepClient::status
status ==
    \E job_id \in Ids :
        Send("status", "StatusResponse", "GET", handle.base_url \o <<"/status/">> \o job_id,
             default_headers(handle), EmptyText, "none")

\* get putting a "/" between the base URL and the path
get_joined ==
    \E path \in Paths, T \in GenericTypes :
        Send("get", T, "GET", handle.base_url \o <<"/">> \o path, default_headers(handle), EmptyText, "none")

\* SchlepClient::get::<T>
get ==
    \E path \in Paths, T \in GenericTypes :
        Send("get", T, "GET", handle.base_url \o path, default_headers(handle), EmptyText, "none")

\* SchlepClient::post::<T>
post ==
    \E path \in Paths, T \in GenericTypes, body \in Payloads :
        Send("post", T, "POST", handle.base_url \o path, default_headers(handle), to_string(body), "json")

\* SchlepClient::put::<T>
put ==
    \E path \in Paths, T \in GenericTypes, body \in Payloads :
        Send("put", T, "PUT", handle.base_url \o path, default_headers(handle), to_string(body), "json")

\* SchlepClient::delete::<T>
delete ==
    \E path \in Paths, T \in GenericTypes :
        Send("delete", T, "DELETE", handle.base_url \o path, default_headers(handle), EmptyText, "none")

\* SchlepClient::post_multipart::<T>
post_multipart ==
    \E path \in Paths, T \in GenericTypes :
        Send("post_multipart", T, "POST", handle.base_url \o path, multipart_headers(handle),
             <<"form">>, "multipart")

\* SchlepClient::download, up to send()
download ==
    \E path \in Paths :
        Send("download", "Bytes", "GET", handle.base_url \o path, default_headers(handle), EmptyText, "none")

\* StorageClient::download_file
download_file ==
    \E file_id \in Ids :
        Send("download_file", "Bytes", "GET",
             handle.base_url \o <<"/storage/files/">> \o file_id \o <<"/download">>,
             default_headers(handle), EmptyText, "none")

\* a list call of a facade: the path with its query, then SchlepClient::get
List(op, V) ==
    \E params \in ListParamsInputs :
        Dispatch(params, op, V, "GET", handle.base_url \o list_path(ListBase(op), params),
                 default_headers(handle), EmptyText, "none")

\* DataClient::list_jobs
list_jobs == List("list_jobs", "Vec<ProcessingJobResponse>")
\* MlClient::list_pipelines
list_pipelines == List("list_pipelines", "Vec<PipelineResponse>")
\* StorageClient::list_files
list_files == List("list_files", "Vec<FileMetadata>")
\* AdminClient::list_users
list_users == List("list_users", "Vec<UserSummary>")

\* StorageClient::delete_file, up to send()
delete_file ==
    \E file_id \in Ids :
        Send("delete_file", "Value", "DELETE", handle.base_url \o <<"/storage/files/">> \o file_id,
             default_headers(handle), EmptyText, "none")

\* UsersClient::revoke_api_key, up to send()
revoke_api_key ==
    \E key_id \in Ids :
        Send("revoke_api_key", "Value", "DELETE", handle.base_url \o <<"/users/api-keys/">> \o key_id,
             default_headers(handle), EmptyText, "none")

\* a failed send() tried once more before the error is returned
TransportFails_retry ==
    /\ call.pc = "sent"
    /\ IF Len(wire) < 2
       THEN /\ wire' = Append(wire, wire[1])
            /\ nsent' = nsent + 1
            /\ UNCHANGED <<call, result, resp>>
       ELSE /\ Return(call.op, call.ty, HttpError)
            /\ resp' = [resp EXCEPT !.failed = TRUE]
            /\ UNCHANGED <<wire, nsent>>
    /\ UNCHANGED <<given, handle, ctor, ncalls, ws, wsSent, arg, tasks>>

\* send().await fails: connection refused, DNS, TLS, timeout
TransportFails ==
    /\ call.pc = "sent"
    /\ Return(call.op, call.ty, HttpError)
    /\ resp' = [resp EXCEPT !.failed = TRUE]
    /\ UNCHANGED <<given, handle, ctor, wire, nsent, ncalls, ws, wsSent, arg, tasks>>

\* send().await gives the response: its status line and headers have arrived
ReceiveStatus ==
    \E s \in Statuses :
        /\ call.pc = "sent"
        /\ call' = [call EXCEPT !.pc = "status"]
        /\ resp' = [arrived |-> TRUE, failed |-> FALSE, status |-> s, read |-> BodyLost, complete |-> FALSE]
        /\ UNCHANGED <<given, handle, ctor, wire, nsent, result, ncalls, ws, wsSent, arg, tasks>>

\* the rest of the call once the body was read, or could not be
Finish(read) ==
    /\ call.pc = "status"
    /\ resp' = [resp EXCEPT !.read = read, !.complete = read.ok]
    /\ Return(call.op, call.ty,
              IF call.op \in DownloadOps THEN download_response(resp.status, read)
              ELSE IF call.op \in UnitOps
              THEN discard(handle_response(call.ty, resp.status, read))
              ELSE handle_response(call.ty, resp.status, read))
    /\ UNCHANGED <<given, handle, ctor, wire, nsent, ncalls, ws, wsSent, arg, tasks>>

\* response.text().await / response.bytes().await gives the body
ReadBody == \E b \in ResponseBodies : Finish(BodyRead(b))

\* response.text().await / response.bytes().await fails
ReadBodyFails == Finish(BodyLost)

\* --------------------------------------------------------------- stream
\* str::replace on the scheme of the base URL
replace(t, from, to) == [i \in 1..Len(t) |-> IF t[i] = from THEN to ELSE t[i]]

\* the URL stream connects to
stream_url(h) ==
    replace(replace(h.base_url, "https://", "wss://"), "http://", "ws://") \o <<"/stream">>

\* the subscription value stream builds
subscription(events, h) ==
    JObj(<< Member(<<"action">>, JStr(<<"subscribe">>)),
            Member(<<"events">>, events),
            Member(<<"auth">>, JObj(<<Member(<<"api_key">>, JStr(h.api_key))>>)) >>)

\* stream keeping the WebSocket URL it built in the handle
stream_rebases ==
    \E events \in StreamConfigs :
        /\ CanCall
        /\ ncalls' = ncalls + 1
        /\ resp' = NoResp
        /\ wsSent' = << >>
        /\ arg' = NoParams
        /\ handle' = [handle EXCEPT !.base_url =
                          replace(replace(handle.base_url, "https://", "wss://"), "http://", "ws://")]
        /\ UNCHANGED <<given, ctor, tasks>>
        /\ IF ~UrlParses(stream_url(handle))
           THEN /\ Return("stream", "none", Err("UrlParse", 0, <<"url::ParseError">>))
                /\ wire' = << >>
                /\ nsent' = nsent
                /\ ws' = "none"
           ELSE /\ call' = [op |-> "stream", ty |-> "none", pc |-> "connecting"]
                /\ result' = NoResult
                /\ wire' = << Request("GET", stream_url(handle), << >>, EmptyText, "websocket") >>
                /\ nsent' = nsent + 1
                /\ ws' = "none"

\* SchlepClient::stream, up to connect_async(url): the URL is parsed, then
\* the WebSocket handshake request goes out
stream ==
    \E events \in StreamConfigs :
        /\ CanCall
        /\ ncalls' = ncalls + 1
        /\ resp' = NoResp
        /\ wsSent' = << >>
        /\ arg' = NoParams
        /\ UNCHANGED <<given, handle, ctor, tasks>>
        /\ IF ~UrlParses(stream_url(handle))
           THEN /\ Return("stream", "none", Err("UrlParse", 0, <<"url::ParseError">>))
                /\ wire' = << >>
                /\ nsent' = nsent
                /\ ws' = "none"
           ELSE /\ call' = [op |-> "stream", ty |-> "none", pc |-> "connecting"]
                /\ result' = NoResult
                /\ wire' = << Request("GET", stream_url(handle), << >>, EmptyText, "websocket") >>
                /\ nsent' = nsent + 1
                /\ ws' = "none"

\* a failed connect_async reported like a failed HTTP send
StreamConnectFails_http ==
    /\ call.pc = "connecting"
    /\ Return("stream", "none", HttpError)
    /\ UNCHANGED <<given, handle, ctor, wire, nsent, resp, ncalls, ws, wsSent, arg, tasks>>

\* connect_async fails
StreamConnectFails ==
    /\ call.pc = "connecting"
    /\ Return("stream", "none", Err("WebSocket", 0, <<"tungstenite::Error">>))
    /\ UNCHANGED <<given, handle, ctor, wire, nsent, resp, ncalls, ws, wsSent, arg, tasks>>

\* stream keeping the connection after it has returned
StreamConnected_keeps ==
    /\ call.pc = "connecting"
    /\ Return("stream", "none", Ok(NoValue))
    /\ ws' = "open"
    /\ UNCHANGED <<given, handle, ctor, wire, nsent, resp, ncalls, wsSent, arg, tasks>>

\* connect_async succeeds: the subscription value is built and dropped,
\* nothing is written to the connection, and returning drops _ws_stream
StreamConnected ==
    /\ call.pc = "connecting"
    /\ Return("stream", "none", Ok(NoValue))
    /\ ws' = "closed"
    /\ UNCHANGED <<given, handle, ctor, wire, nsent, resp, ncalls, wsSent, arg, tasks>>

Next ==
    \/ CallNew
    \/ CallFromEnv
    \/ CallWithBaseUrl
    \/ upload
    \/ train
    \/ deploy
    \/ status
    \/ get
    \/ post
    \/ put
    \/ delete
    \/ post_multipart
    \/ download
    \/ download_file
    \/ TransportFails
    \/ ReceiveStatus
    \/ ReadBody
    \/ ReadBodyFails
    \/ stream
    \/ StreamConnectFails
    \/ StreamConnected

Spec == Init /\ [][Next]_vars

\* ------------------------------------------------- the sub-API facades
\* the list and delete-style calls of the facades, on a handle built the
\* way the tests build it: with_base_url("test-api-key", <mock server>)
InitFacade ==
    LET c == with_base_url(<<"test-api-key">>, <<"http://", "127.0.0.1:1234">>)
    IN  /\ given = Given(<<"test-api-key">>)
        /\ handle = c.handle
        /\ ctor = c.res
        /\ call = Idle
        /\ wire = << >>
        /\ nsent = 0
        /\ resp = NoResp
        /\ result = NoResult
        /\ ncalls = 0
        /\ ws = "none"
        /\ wsSent = << >>
        /\ arg = NoParams
        /\ tasks = NoTasks

NextFacade ==
    \/ list_jobs
    \/ list_pipelines
    \/ list_files
    \/ list_users
    \/ delete_file
    \/ revoke_api_key
    \/ TransportFails
    \/ ReceiveStatus
    \/ ReadBody
    \/ ReadBodyFails

SpecFacade == InitFacade /\ [][NextFacade]_vars

\* ------------------------------------------------------ concurrent calls
\* Calls made on one shared &SchlepClient by independent tasks.  Each call
\* is a future with its own url, Response and result; the handle is only
\* read.
TaskOps == { <<"get", "Value">>, <<"get", "UploadResponse">>, <<"download", "Bytes">> }

\* get / download up to send().await, in task i
StartTask ==
    \E i \in 1..MaxTasks, c \in TaskOps, path \in Paths :
        LET hdrs == default_headers(handle)
            url == handle.base_url \o path
            begun == [NoTask EXCEPT !.op = c[1], !.ty = c[2]]
        IN  /\ handle.exists
            /\ tasks[i].pc = "idle"
            /\ IF ~hdrs.ok
               THEN /\ tasks' = [tasks EXCEPT ![i] =
                           [begun EXCEPT !.pc = "done",
                                         !.result = config_error(<<"Invalid API key format: ",
                                                                   "InvalidHeaderValue">>)]]
                    /\ nsent' = nsent
               ELSE IF ~UrlParses(url)
               THEN /\ tasks' = [tasks EXCEPT ![i] = [begun EXCEPT !.pc = "done", !.result = HttpError]]
                    /\ nsent' = nsent
               ELSE /\ tasks' = [tasks EXCEPT ![i] =
                           [begun EXCEPT !.pc = "sent",
                                         !.req = << Request("GET", url, hdrs.headers, EmptyText, "none") >>]]
                    /\ nsent' = nsent + 1
            /\ UNCHANGED <<given, handle, ctor, call, wire, resp, result, ncalls, ws, wsSent, arg>>

\* send().await of some task fails
TaskTransportFails ==
    \E i \in 1..MaxTasks :
        /\ tasks[i].pc = "sent"
        /\ tasks' = [tasks EXCEPT ![i].pc = "done", ![i].failed = TRUE, ![i].result = HttpError]
        /\ UNCHANGED <<given, handle, ctor, call, wire, nsent, resp, result, ncalls, ws, wsSent, arg>>

\* send().await of some task gives its response
TaskReceiveStatus ==
    \E i \in 1..MaxTasks, s \in {200, 404} :
        /\ tasks[i].pc = "sent"
        /\ tasks' = [tasks EXCEPT ![i].pc = "status", ![i].status = s]
        /\ UNCHANGED <<given, handle, ctor, call, wire, nsent, resp, result, ncalls, ws, wsSent, arg>>

\* every task taking the status from the response of the first task
TaskFinish_shared(read) ==
    \E i \in 1..MaxTasks :
        /\ tasks[i].pc = "status"
        /\ tasks' = [tasks EXCEPT
               ![i].pc = "done",
               ![i].read = read,
               ![i].result =
                   IF tasks[i].op \in DownloadOps THEN download_response(tasks[1].status, read)
                   ELSE handle_response(tasks[i].ty, tasks[1].status, read)]
        /\ UNCHANGED <<given, handle, ctor, call, wire, nsent, resp, result, ncalls, ws, wsSent, arg>>

\* a task that finishes only when no other call is still to be made
TaskFinish_waits(read) ==
    \E i \in 1..MaxTasks :
        /\ tasks[i].pc = "status"
        /\ \A j \in 1..MaxTasks : tasks[j].pc # "idle"
        /\ tasks' = [tasks EXCEPT
               ![i].pc = "done",
               ![i].read = read,
               ![i].result =
                   IF tasks[i].op \in DownloadOps THEN download_response(tasks[i].status, read)
                   ELSE handle_response(tasks[i].ty, tasks[i].status, read)]
        /\ UNCHANGED <<given, handle, ctor, call, wire, nsent, resp, result, ncalls, ws, wsSent, arg>>

\* the rest of the call of some task once its body was read, or could not be
TaskFinish(read) ==
    \E i \in 1..MaxTasks :
        /\ tasks[i].pc = "status"
        /\ tasks' = [tasks EXCEPT
               ![i].pc = "done",
               ![i].read = read,
               ![i].result =
                   IF tasks[i].op \in DownloadOps THEN download_response(tasks[i].status, read)
                   ELSE handle_response(tasks[i].ty, tasks[i].status, read)]
        /\ UNCHANGED <<given, handle, ctor, call, wire, nsent, resp, result, ncalls, ws, wsSent, arg>>

\* the body of some task arrives
TaskReadBody ==
    \E b \in { <<"{">>, <<"{", Q, "message", Q, ":", Q, "X", Q, "}">>,
               <<"{", Q, "job_id", Q, ":", Q, "X", Q, ",", Q, "status", Q, ":", Q, "X", Q, "}">> } :
        TaskFinish(BodyRead(b))

\* reading the body of some task fails
TaskReadBodyFails == TaskFinish(BodyLost)

NextTasks ==
    \/ StartTask
    \/ TaskTransportFails
    \/ TaskReceiveStatus
    \/ TaskReadBody
    \/ TaskReadBodyFails

SpecTasks == InitFacade /\ [][NextTasks]_vars

\* the transport delivers, to every call that is waiting, a response or a
\* failure, and then the body or a failure to read it
FairTasks ==
    /\ SpecTasks
    /\ WF_vars(TaskTransportFails \/ TaskReceiveStatus)
    /\ WF_vars(TaskReadBody \/ TaskReadBodyFails)

\* ------------------------------------------------------ stream by itself
\* base URLs for stream: a scheme or none, a host that parses or not, and
\* path prefixes, two of them holding a URL of their own
StreamBaseUrls ==
    { <<scheme, host>> \o prefix :
        scheme \in {"https://", "http://"},
        host \in HostAtoms \cup {"bad host"},
        prefix \in { << >>, <<"/v1">>, <<"/proxy/", "http://", "inner">>,
                     <<"/proxy/", "https://", "inner">> } }
    \cup { <<"127.0.0.1:1234">> }

\* a handle built by with_base_url, before any call
InitStream ==
    \E key \in ApiKeys \ {EmptyText}, url \in StreamBaseUrls :
        /\ given = Given(key)
        /\ handle = with_base_url(key, url).handle
        /\ ctor = with_base_url(key, url).res
        /\ call = Idle
        /\ wire = << >>
        /\ nsent = 0
        /\ resp = NoResp
        /\ result = NoResult
        /\ ncalls = 0
        /\ ws = "none"
        /\ wsSent = << >>
        /\ arg = NoParams
        /\ tasks = NoTasks

NextStream ==
    \/ stream
    \/ StreamConnectFails
    \/ StreamConnected

SpecStream == InitStream /\ [][NextStream]_vars

\* ------------------------------------------------ what the bodies are
\* The JSON texts among the short bodies, enumerated from the grammar
\* (ShortAtoms has no ":" and no ","): a scalar, an empty object, an array
\* of at most one element, white space around any value.
WsRuns(n) == SeqsUpTo({WS}, n)
Padded(S, n) == { t \in { l \o v \o r : l \in WsRuns(n), r \in WsRuns(n), v \in S } : Len(t) <= n }
RECURSIVE ShortJsonValues(_)
ShortJsonValues(n) ==
    IF n <= 0 THEN {}
    ELSE {<<"null">>}
         \cup { [i \in 1..m |-> DIGIT] : m \in 1..n }
         \cup (IF n < 2 THEN {}
               ELSE { <<Q>> \o c \o <<Q>> : c \in SeqsUpTo(ShortAtoms \ {Q}, n - 2) }
                    \cup { <<"{">> \o w \o <<"}">> : w \in WsRuns(n - 2) }
                    \cup { <<"[">> \o w \o <<"]">> : w \in WsRuns(n - 2) }
                    \cup { <<"[">> \o e \o <<"]">> : e \in Padded(ShortJsonValues(n - 2), n - 2) })
ShortJson == Padded(ShortJsonValues(MaxShort), MaxShort)

\* the call is over and its response arrived whole: status and body
Answered == call.pc = "done" /\ call.op \in HttpOps /\ resp.complete
Status2xx == resp.status \in 200..299
Body == resp.read.text

\* the members of key "message" of a sample object
MessageMembers(v) == { i \in 1..Len(v.items) : v.items[i].key = <<"message">> }
\* the texts of the sample objects with exactly one member "message", a
\* string, each with that string
WithMessage ==
    { [body |-> to_string(v), message |-> v.items[i].val.s] :
        <<v, i>> \in { p \in SampleObjects \X {1, 2} :
                         MessageMembers(p[1]) = {p[2]} /\ p[1].items[p[2]].val.k = "str" } }
\* the JSON texts of the sample structs, each with the struct
StructTexts ==
    UNION { { [body |-> to_string(AsObject(tv)), val |-> tv],
              [body |-> to_string(AsSparseObject(tv)), val |-> tv],
              [body |-> to_string(AsArray(tv)), val |-> tv] } : tv \in AllSampleStructs }
\* the JSON texts of the sample objects without a repeated key, each with the object
ObjectTexts ==
    { [body |-> to_string(v), val |-> v] :
        v \in { o \in SampleObjects : Len(o.items) = 2 => o.items[1].key # o.items[2].key } }
\* the texts of the sample structs with the first, required, field missing
MissingFieldTexts ==
    { [body |-> to_string(WithoutFirst(AsObject(tv))), ty |-> tv.ty] : tv \in AllSampleStructs }
ShortNotJson == ShortBodies \ ShortJson
\* valid JSON texts without a string member "message": the sample objects
\* whose members "message" are all not strings, the structs as arrays,
\* the values that are no object with members, and the short JSON texts
WithoutMessage ==
    { to_string(v) : v \in { o \in SampleObjects :
                                \A i \in MessageMembers(o) : o.items[i].val.k # "str" } }
    \cup { to_string(AsArray(tv)) : tv \in AllSampleStructs }
    \cup ValueBodies
    \cup ShortJson
\* non-empty texts that are not JSON
NotJson == (ShortNotJson \cup TruncatedBodies) \ {EmptyText}

\* -------------------------------------------------------------- claims

\* C1: for every dispatcher operation, a response whose status is outside
\* 200-299 and whose body was received makes the call return Error::Api
\* with code equal to that status, whatever the body is.
C1_NonSuccessIsApiWithStatus ==
    (Answered /\ ~Status2xx) => (result.kind = "Api" /\ result.code = resp.status)

C1_Witness ==
    /\ Answered /\ call.op = "download" /\ resp.status = 300
    /\ Body = <<"{", "}">> /\ result.kind = "Api" /\ result.code = 300

\* C2: a 2xx response whose body does not decode as JSON into the expected
\* type makes a JSON operation return Error::InvalidResponse, and a 2xx
\* response never gives Error::Api or Error::Http once its body is read.
C2_UndecodableIsInvalidResponse ==
    (Answered /\ call.op \in JsonOps /\ Status2xx) =>
        /\ result.kind \in {"Ok", "InvalidResponse"}
        /\ ~from_str(call.ty, Body).ok => result.kind = "InvalidResponse"
        /\ Body \in ShortNotJson => result.kind = "InvalidResponse"
        /\ [body |-> Body, ty |-> call.ty] \in MissingFieldTexts => result.kind = "InvalidResponse"

C2_Witness ==
    /\ Answered /\ call.op = "upload" /\ resp.status = 200
    /\ Body = to_string(JObj(<<Member(<<"status">>, JStr(<<"X">>)), Member(<<"message">>, JNull)>>))
    /\ result.kind = "InvalidResponse"

\* C3: a 2xx response whose body is the JSON text of a value of the
\* expected type makes a JSON operation return Ok with that value.
C3_DecodableIsOkWithValue ==
    (Answered /\ call.op \in JsonOps /\ Status2xx) =>
        /\ \A p \in StructTexts : (p.val.ty = call.ty /\ p.body = Body) => result = Ok(p.val)
        /\ \A p \in ObjectTexts : (call.ty = "Value" /\ p.body = Body) => result = Ok(TValue(p.val))

C3_Witness ==
    /\ Answered /\ call.op = "status" /\ resp.status = 299
    /\ result.kind = "Ok" /\ result.val.ty = "StatusResponse"
    /\ result.val.fields[1] = Some(JStr(<<"X">>))
    /\ result.val.fields[3] = Some(JNum(<<DIGIT, DIGIT>>))
    /\ result.val.fields[5] = None
    /\ Body = <<"{", Q, "job_id", Q, ":", Q, "X", Q, ",", Q, "status", Q, ":", Q, "X", Q, ",",
                 Q, "progress", Q, ":", DIGIT, DIGIT, ",", Q, "result", Q, ":", "{", "}", ",",
                 Q, "created_at", Q, ":", Q, "ok", Q, ",", Q, "updated_at", Q, ":", Q, "ok", Q, "}">>

\* C4: a non-2xx response whose body is a JSON object with a string member
\* "message" equal to X makes the call return Error::Api with message X.
C4_MessageFieldIsMessage ==
    (Answered /\ ~Status2xx) =>
        \A p \in WithMessage :
            p.body = Body => (result.kind = "Api" /\ result.message = p.message)

C4_Witness ==
    /\ Answered /\ call.op = "train" /\ resp.status = 404
    /\ Body = <<"{", Q, "message", Q, ":", Q, "Invalid", WS, "key", Q, "}">>
    /\ result = api_error(404, <<"Invalid", WS, "key">>)

C6_EmptyBodyIsUnknown ==
    (Answered /\ ~Status2xx /\ Body = EmptyText) =>
        (result.kind = "Api" /\ result.message = UnknownApiError)

\* C7: a non-2xx response whose body is not empty and is not JSON gives
\* Error::Api with the raw body as message.
C7_UnparseableIsRawBody ==
    (Answered /\ ~Status2xx /\ Body \in NotJson) =>
        result = api_error(resp.status, Body)

C7_Witness ==
    /\ Answered /\ call.op = "delete" /\ resp.status = 199
    /\ Body = <<"{", Q, "message", Q, ":", Q, "X", Q>>
    /\ result = api_error(199, Body)

\* C8: a constructor given an empty API key returns Error::Config, leaves
\* no handle and sends nothing; no handle has an empty api_key.
C8_EmptyKeyIsConfigError ==
    /\ handle.exists => ~is_empty(handle.api_key)
    /\ (given.set /\ is_empty(given.val)) =>
          /\ ctor.kind = "Config"
          /\ ~handle.exists
          /\ nsent = 0 /\ wire = << >> /\ ncalls = 0 /\ call = Idle
    /\ ~handle.exists => (nsent = 0 /\ wire = << >>)

C8_Witness ==
    /\ given = Given(EmptyText)
    /\ ctor = config_error(<<"API key cannot be empty">>)
    /\ ~handle.exists /\ nsent = 0

\* C9: a call whose transport fails before a response is obtained returns
\* Error::Http, and no call puts more than one request on the network.
C9_TransportFailureIsHttpNoRetry ==
    /\ Len(wire) <= 1
    /\ nsent <= ncalls
    /\ (call.pc = "done" /\ call.op \in HttpOps /\ resp.failed) =>
          (result.kind = "Http" /\ Len(wire) = 1 /\ ~resp.arrived)

C9_Witness ==
    /\ call.pc = "done" /\ call.op = "get" /\ resp.failed
    /\ result = HttpError /\ Len(wire) = 1 /\ ncalls = 2 /\ nsent = 2

\* the request carries Authorization: Bearer <the key the constructor was given>
HasBearer(r) ==
    \E j \in 1..Len(r.headers) :
        r.headers[j] = Header("authorization", <<"Bearer ">> \o given.val)

\* C10 as claimed: every request any operation puts on the network carries
\* Authorization: Bearer <api_key>.
C10_Original == \A i \in 1..Len(wire) : HasBearer(wire[i])

\* C10 as amended: every HTTP request of get, post, put, delete,
\* post_multipart, download, upload, train, deploy and status carries
\* Authorization: Bearer <api_key>; the WebSocket handshake request of
\* stream carries no Authorization header.
C10_HttpRequestsCarryBearer ==
    \A i \in 1..Len(wire) :
        IF wire[i].kind = "websocket" THEN ~HasBearer(wire[i]) ELSE HasBearer(wire[i])

C10_Witness ==
    /\ call.op = "post_multipart" /\ call.pc = "sent"
    /\ Len(wire) = 1 /\ wire[1].kind = "multipart"
    /\ wire[1].headers = << Header("authorization", <<"Bearer ", "test-api-key">>) >>

\* the headers of the request named name
HeadersNamed(r, name) == { j \in 1..Len(r.headers) : r.headers[j].name = name }

\* C11: every request of a JSON operation (get, post, put, delete,
\* download, upload, train, deploy, status) carries exactly one
\* Content-Type header, application/json; the headers the client sets on a
\* multipart request are the Authorization header and nothing else.
C11_ContentTypeJsonExceptMultipart ==
    \A i \in 1..Len(wire) :
        /\ wire[i].kind \in {"json", "none"} =>
              /\ Cardinality(HeadersNamed(wire[i], "content-type")) = 1
              /\ \A j \in HeadersNamed(wire[i], "content-type") :
                    wire[i].headers[j].value = <<"application/json">>
        /\ wire[i].kind = "multipart" =>
              /\ HeadersNamed(wire[i], "content-type") = {}
              /\ Cardinality(HeadersNamed(wire[i], "authorization")) = 1
              /\ Len(wire[i].headers) = 1
        /\ (wire[i].kind = "multipart") = (call.op = "post_multipart")

C11_Witness ==
    /\ call.op = "download" /\ call.pc = "sent" /\ ncalls = 2
    /\ Len(wire) = 1 /\ wire[1].kind = "none"
    /\ wire[1].headers = << Header("authorization", <<"Bearer ", "test-api-key">>),
                            Header("content-type", <<"application/json">>) >>

\* C12: a stream call that returns Ok has sent the subscription message
\* (action "subscribe", the events, auth.api_key) as the first message on
\* the WebSocket connection.
C12_SubscriptionIsFirstMessage ==
    (call.op = "stream" /\ call.pc = "done" /\ result.kind = "Ok") =>
        \E events \in StreamConfigs :
            /\ Len(wsSent) >= 1
            /\ wsSent[1] = to_string(subscription(events, handle))

\* C13: once a handle exists, no step of any call changes its base_url or
\* its api_key.
C13_HandleNeverChanges == [][handle.exists => handle' = handle]_vars

C13_Witness ==
    /\ handle = Handle(<<"test-api-key">>, DEFAULT_BASE_URL)
    /\ ncalls = 2 /\ call.op = "stream" /\ call.pc = "done" /\ result.kind = "Ok"

ErrorKinds == {"Http", "InvalidResponse", "Api", "Config", "Serialization", "UrlParse", "WebSocket"}

\* C14: a call that is over has exactly one outcome, a value or one error
\* variant, and a call that is running has none; Error::Api is the outcome
\* only after a response of non-2xx status was received, InvalidResponse
\* only after a response of 2xx status was received.
C14_OneOutcomePerCall ==
    /\ call.pc = "done" => result.kind \in {"Ok"} \cup ErrorKinds
    /\ call.pc # "done" => result = NoResult
    /\ result.kind = "Ok" => (result.code = 0 /\ result.message = EmptyText)
    /\ result.kind \in ErrorKinds => result.val = NoValue
    /\ result.kind = "Api" =>
          (resp.arrived /\ resp.complete /\ resp.status \notin 200..299 /\ result.code = resp.status)
    /\ result.kind = "InvalidResponse" =>
          (resp.arrived /\ resp.complete /\ resp.status \in 200..299)

C14_Witness ==
    /\ call.pc = "done" /\ call.op = "get" /\ call.ty = "UploadResponse"
    /\ resp.arrived /\ resp.status = 200 /\ Body = <<"{", "}">>
    /\ result.kind = "InvalidResponse"

\* C15: download (and download_file) answered with a non-2xx status
\* returns the Error::Api, code and message, that handle_response returns
\* for the same status and body.
C15_DownloadErrorsAsHandleResponse ==
    (Answered /\ call.op \in DownloadOps /\ ~Status2xx) =>
        \A T \in {"Value"} \cup StructTypes :
            result = handle_response(T, resp.status, resp.read)

C15_Witness ==
    /\ Answered /\ call.op = "download" /\ resp.status = 404
    /\ Body = <<"{", Q, "message", Q, ":", Q, "Invalid", WS, "key", Q, "}">>
    /\ result = api_error(404, <<"Invalid", WS, "key">>)

\* C16: download (and download_file) answered with a 2xx status returns
\* Ok with exactly the bytes of the body, whatever the body is, and never
\* returns InvalidResponse.
C16_DownloadReturnsBodyBytes ==
    /\ (Answered /\ call.op \in DownloadOps /\ Status2xx) => result = Ok(TBytes(Body))
    /\ call.op \in DownloadOps => result.kind # "InvalidResponse"

C16_Witness ==
    /\ Answered /\ call.op = "download_file" /\ resp.status = 200
    /\ Body = <<"{">>
    /\ result = Ok(TBytes(<<"{">>))

\* the pair k=v of a field that is set, its value as it is
PairOf(k, f) == IF f.some THEN << <<k, "=">> \o f.s >> ELSE << >>
\* the pairs of the fields of p that are set, in the order page, page_size, status
ExpectedPairs(p) ==
    PairOf("page", p.page) \o PairOf("page_size", p.page_size) \o PairOf("status", p.status)
ExpectedQuery(p) ==
    LET ps == ExpectedPairs(p)
    IN  CASE Len(ps) = 1 -> ps[1]
          [] Len(ps) = 2 -> ps[1] \o <<"&">> \o ps[2]
          [] Len(ps) = 3 -> ps[1] \o <<"&">> \o ps[2] \o <<"&">> \o ps[3]

\* C17: a list call given parameters with at least one field set requests
\* <base>?k1=v1&k2=v2...: one pair per field that is set, joined by "&",
\* the fields that are not set left out, each value copied as it is.
C17_QueryIsPairsJoined ==
    (call.op \in ListOps /\ Len(wire) = 1 /\ arg.some /\ Len(ExpectedPairs(arg.p)) >= 1) =>
        /\ wire[1].verb = "GET"
        /\ wire[1].url = handle.base_url \o <<ListBase(call.op), "?">> \o ExpectedQuery(arg.p)

C17_Witness ==
    /\ call.op = "list_files" /\ call.pc = "sent"
    /\ arg = SomeParams(ListParams(SomeText(<<DIGIT>>), NoText, SomeText(<<"a", "&", "b", "=", "c">>)))
    /\ wire[1].url = <<"http://", "127.0.0.1:1234", "/storage/files", "?",
                       "page", "=", DIGIT, "&", "status", "=", "a", "&", "b", "=", "c">>

\* C18: a list call given no parameters, or parameters whose fields are
\* all unset, requests the path as it is, without a trailing "?".
C18_NoParamsNoQuery ==
    (call.op \in ListOps /\ Len(wire) = 1 /\ (~arg.some \/ ExpectedPairs(arg.p) = << >>)) =>
        wire[1].url = handle.base_url \o <<ListBase(call.op)>>

\* the response bodies that are JSON texts: those rendered from a value and
\* the short ones the grammar gives
ValidJsonBodies == ShortJson \cup ObjectBodies \cup ValueBodies \cup TypedBodies \cup ListBodies

\* C19: a delete-style call (delete_file, revoke_api_key) answered with a
\* 2xx status and a body that is any JSON value returns Ok(()).
C19_DeleteStyleDiscardsBody ==
    (call.pc = "done" /\ call.op \in UnitOps /\ resp.complete /\ Status2xx
       /\ Body \in ValidJsonBodies) =>
        result = Ok(Unit)

C19_Witness ==
    /\ call.pc = "done" /\ call.op = "revoke_api_key" /\ resp.complete /\ resp.status = 200
    /\ Body = <<"{", Q, "message", Q, ":", Q, "X", Q, "}">>
    /\ result = Ok(Unit)

\* what env::var finds when the variable is not set
EnvNotSet == [set |-> FALSE, val |-> EmptyText]

\* C20: from_env returns Error::Config, leaves no handle and sends nothing
\* when SCHLEP_API_KEY is not set; when it is set to a non-empty value the
\* handle it returns has that value as api_key.
C20_FromEnvReadsTheKey ==
    /\ given = EnvNotSet =>
          /\ ctor.kind = "Config"
          /\ ~handle.exists
          /\ nsent = 0 /\ wire = << >> /\ ncalls = 0 /\ call = Idle
    /\ \A e \in EnvValues :
          (e.set /\ ~is_empty(e.val)) =>
              /\ from_env(e).res.kind = "Ok"
              /\ from_env(e).handle.exists
              /\ from_env(e).handle.api_key = e.val
    /\ (given.set /\ ~is_empty(given.val)) => handle.api_key = given.val

C20_Witness ==
    /\ given = EnvNotSet
    /\ ctor = config_error(<<"SCHLEP_API_KEY environment variable not set">>)
    /\ ~handle.exists /\ nsent = 0

\* the paths an operation of the client requests
PathsOf(op) ==
    CASE op = "upload" -> { <<"/upload">> }
      [] op = "train" -> { <<"/train">> }
      [] op = "deploy" -> { <<"/deploy">> }
      [] op = "status" -> { <<"/status/">> \o id : id \in Ids }
      [] op = "download_file" -> { <<"/storage/files/">> \o id \o <<"/download">> : id \in Ids }
      [] OTHER -> Paths

\* C21: every HTTP operation sends its request to base_url followed by the
\* path as it is, nothing escaped and nothing put between them; base_url is
\* what with_base_url was given, the default endpoint for new and from_env.
C21_UrlIsBasePlusPath ==
    /\ \A i \in 1..Len(wire) :
          wire[i].kind # "websocket" =>
              /\ SubSeq(wire[i].url, 1, Len(handle.base_url)) = handle.base_url
              /\ SubSeq(wire[i].url, Len(handle.base_url) + 1, Len(wire[i].url)) \in PathsOf(call.op)
    /\ (handle.exists /\ ncalls = 0) =>
          /\ handle.base_url \in BaseUrls
          /\ \A key \in ApiKeys \ {EmptyText} :
                /\ new(key).handle.base_url = <<"https://", "api.schlep-engine.com", "/v1">>
                /\ from_env([set |-> TRUE, val |-> key]).handle.base_url
                      = <<"https://", "api.schlep-engine.com", "/v1">>
                /\ \A url \in BaseUrls : with_base_url(key, url).handle.base_url = url

C21_Witness ==
    /\ call.op = "get" /\ call.pc = "sent" /\ Len(wire) = 1
    /\ handle.base_url = <<"http://", "127.0.0.1:1234">>
    /\ wire[1].url = <<"http://", "127.0.0.1:1234", "/jobs">>

\* the JSON bodies of the named operations, written out
ExpectedBodies(op) ==
    CASE op = "upload" -> { <<"{", Q, "data", Q, ":", Q>> \o data \o <<Q, "}">> : data \in Texts }
      [] op = "deploy" -> { <<"{", Q, "model_id", Q, ":", Q>> \o id \o <<Q, "}">> : id \in Ids }
      [] op = "train" -> { <<"{", "}">>, <<"{", Q, "model_type", Q, ":", Q, "X", Q, "}">> }
      [] op = "status" -> { EmptyText }

\* C22: upload, deploy and train each send one POST to base_url + "/upload",
\* "/deploy", "/train" with the Authorization and the Content-Type:
\* application/json header and the body {"data": data}, {"model_id":
\* model_id}, the config as given; status sends one GET to base_url +
\* "/status/" + job_id without a body.
C22_NamedOperationsRequests ==
    (call.op \in {"upload", "deploy", "train", "status"} /\ call.pc \in {"sent", "status"}) =>
        /\ Len(wire) = 1
        /\ wire[1].verb = (IF call.op = "status" THEN "GET" ELSE "POST")
        /\ wire[1].url \in { handle.base_url \o path : path \in PathsOf(call.op) }
        /\ wire[1].headers = << Header("authorization", <<"Bearer ">> \o handle.api_key),
                                Header("content-type", <<"application/json">>) >>
        /\ wire[1].body \in ExpectedBodies(call.op)
        /\ wire[1].kind = (IF call.op = "status" THEN "none" ELSE "json")

C22_Witness ==
    /\ call.op = "upload" /\ call.pc = "sent" /\ Len(wire) = 1
    /\ wire[1].verb = "POST"
    /\ wire[1].url = <<"https://", "api.schlep-engine.com", "/v1", "/upload">>
    /\ wire[1].body = <<"{", Q, "data", Q, ":", Q, "test", WS, "data", Q, "}">>

\* the base URL has no http:// or https:// scheme, or a host that is none
BadStreamBase(u) == Len(u) < 2 \/ u[1] \notin {"https://", "http://"} \/ u[2] = "bad host"

\* C23: stream returns Error::UrlParse without any connection attempt when
\* the derived URL does not parse, returns Error::WebSocket, never
\* Error::Http, when the connection cannot be established, and attempts
\* the connection only with a URL that parsed.
C23_StreamUrlThenConnect ==
    call.op = "stream" =>
        /\ result.kind # "Http"
        /\ (call.pc = "done" /\ BadStreamBase(handle.base_url)) =>
              (result.kind = "UrlParse" /\ wire = << >> /\ nsent = 0)
        /\ result.kind = "UrlParse" => (wire = << >> /\ BadStreamBase(handle.base_url))
        /\ Len(wire) = 1 => (wire[1].kind = "websocket" /\ ~BadStreamBase(handle.base_url))
        /\ (call.pc = "done" /\ Len(wire) = 1) => result.kind \in {"Ok", "WebSocket"}

C23_Witness ==
    /\ call.op = "stream" /\ call.pc = "done" /\ ncalls = 2
    /\ handle.base_url = <<"http://", "bad host", "/v1">>
    /\ result.kind = "UrlParse" /\ nsent = 0

\* C27: for every base URL that begins with http:// or https://, stream
\* connects to the same host and path prefix under ws:// or wss://,
\* followed by /stream.
C27_StreamUrlIsSchemeSwapped ==
    (call.op = "stream" /\ Len(wire) = 1 /\ handle.base_url[1] \in {"https://", "http://"}) =>
        wire[1].url = << IF handle.base_url[1] = "https://" THEN "wss://" ELSE "ws://" >>
                      \o Tail(handle.base_url) \o <<"/stream">>

KeyHasLineFeed(h) == \E i \in 1..Len(h.api_key) : h.api_key[i] = LF
\* the base URL has no scheme or a host that is none
BadHttpBase(u) == Len(u) < 2 \/ u[1] \notin {"https://", "http://"} \/ u[2] = "bad host"

\* the outcome of the call that is over, from the handle it was made on and
\* from what the transport delivered to it, and from nothing else
OutcomeAlone ==
    IF KeyHasLineFeed(handle)
    THEN config_error(<<"Invalid API key format: ", "InvalidHeaderValue">>)
    ELSE IF BadHttpBase(handle.base_url) \/ resp.failed THEN HttpError
    ELSE IF call.op \in DownloadOps THEN download_response(resp.status, resp.read)
    ELSE handle_response(call.ty, resp.status, resp.read)

\* C25: the outcome of a call is a function of the handle, of the call's
\* arguments and of the response it receives: after any earlier calls on
\* the handle, failed ones included, it is the outcome of the same call
\* with the same response on a handle just constructed.
C25_NoStateBetweenCalls ==
    (call.pc = "done" /\ call.op \in HttpOps) =>
        /\ result = OutcomeAlone
        /\ (~KeyHasLineFeed(handle) /\ ~BadHttpBase(handle.base_url)) =>
              (Len(wire) = 1 /\ (resp.failed \/ resp.arrived))

C25_Witness ==
    /\ call.pc = "done" /\ call.op = "status" /\ ncalls = 2 /\ nsent = 2
    /\ resp.status = 200 /\ result.kind = "Ok"

\* C28: a handle can be constructed with a non-empty key that holds a line
\* feed; every HTTP operation on it returns Error::Config and sends nothing.
C28_InvalidKeyIsConfigError ==
    (handle.exists /\ KeyHasLineFeed(handle)) =>
        /\ call.op \in HttpOps => (call.pc = "done" /\ result.kind = "Config" /\ wire = << >>)
        /\ Len(wire) > 0 => call.op = "stream"

C28_Witness ==
    /\ handle.exists /\ handle.api_key = <<"key", LF>>
    /\ call.op = "post_multipart" /\ call.pc = "done" /\ ncalls = 2 /\ nsent = 0
    /\ result = config_error(<<"Invalid API key format: ", "InvalidHeaderValue">>)

\* C29: a call whose response arrived but whose body could not be read
\* returns Error::Http whatever the status, in handle_response and in
\* download.
C29_BodyReadFailureIsHttp ==
    (call.pc = "done" /\ call.op \in HttpOps /\ resp.arrived /\ ~resp.complete) =>
        (result = HttpError /\ resp.read = BodyLost)

C29_Witness ==
    /\ call.pc = "done" /\ call.op = "get" /\ resp.arrived /\ ~resp.complete
    /\ resp.status = 404 /\ result.kind = "Http"

\* C24: however the steps of the calls in flight on one handle interleave,
\* each call that is over has the outcome that its own request and the
\* response or failure delivered to it give when it runs alone, and its
\* request is the one the handle and its own arguments give.
C24_ConcurrentCallsDoNotInterfere ==
    \A i \in 1..MaxTasks :
        /\ tasks[i].pc \in {"sent", "status", "done"} =>
              /\ handle = Handle(<<"test-api-key">>, <<"http://", "127.0.0.1:1234">>)
              /\ tasks[i].req = << Request("GET", <<"http://", "127.0.0.1:1234", "/jobs">>,
                                           << Header("authorization", <<"Bearer ", "test-api-key">>),
                                              Header("content-type", <<"application/json">>) >>,
                                           EmptyText, "none") >>
        /\ tasks[i].pc = "done" =>
              tasks[i].result =
                  IF tasks[i].failed THEN HttpError
                  ELSE IF tasks[i].op = "download"
                  THEN download_response(tasks[i].status, tasks[i].read)
                  ELSE handle_response(tasks[i].ty, tasks[i].status, tasks[i].read)

\* the second call is over, with its own response, while the first still
\* waits for its body
C24_Witness ==
    /\ tasks[1].pc = "status" /\ tasks[1].status = 404
    /\ tasks[2].pc = "done" /\ tasks[2].status = 200 /\ tasks[2].op = "get"
    /\ tasks[2].result.kind = "Ok"

\* C26: every call that has sent its request returns, with a value or an
\* error, once the transport has delivered a response or a failure; it
\* waits for nothing else.
C26_SentCallsReturn ==
    \A i \in 1..MaxTasks :
        (tasks[i].pc \in {"sent", "status"}) ~> (tasks[i].pc = "done" /\ tasks[i].result # NoResult)

C26_Witness ==
    /\ tasks[1].pc = "done" /\ tasks[1].failed /\ tasks[1].result = HttpError
    /\ tasks[2].pc = "idle"
====
